---- MODULE Spec2Model ----
(***************************************************************************)
(* Model of client/app/Request.ts: the Request builder (tcp, unix, send,   *)
(* end) and the asynchronous exchange that end() starts, with the          *)
(* transport (node http/https ClientRequest and IncomingMessage), the      *)
(* Promise returned by end() and the Logger as the environment.            *)
(*                                                                         *)
(* Strings are sequences of one-character strings, so that split, join and *)
(* parseInt are computed character by character as the code computes them. *)
(***************************************************************************)
EXTENDS Integers, Sequences, FiniteSets, TLC

\* ------------------------------------------------------------------ bounds
MaxHostLen == 3      \* longest host in the arguments given to tcp()
MaxCalls == 2        \* configuration calls made before end()
MaxChunks == 2       \* data chunks the transport delivers for one response
MaxHeaders == 2      \* name/value pairs in the raw headers of a response

\* ------------------------------------------------------- values and strings
\* A field that was never assigned (JavaScript undefined) for string fields.
Undefined == <<"undefined">>
\* A numeric field that was never assigned.
UndefinedNum == 0 - 2
\* The result of parseInt when no digit can be read.
NaN == 0 - 1

Digits == <<"0", "1", "2", "3", "4", "5", "6", "7", "8", "9">>

Http == <<"h", "t", "t", "p">>
Https == <<"h", "t", "t", "p", "s">>
SchemeSep == <<":", "/", "/">>
Colon == <<":">>

\* JavaScript truthiness of a string field: undefined and "" are falsy.
Truthy(s) == s # Undefined /\ s # <<>>

RECURSIVE SplitFrom(_, _, _, _)
SplitFrom(s, sep, i, cur) ==
    IF i > Len(s) THEN <<cur>>
    ELSE IF i + Len(sep) - 1 <= Len(s) /\ SubSeq(s, i, i + Len(sep) - 1) = sep
         THEN <<cur>> \o SplitFrom(s, sep, i + Len(sep), <<>>)
         ELSE SplitFrom(s, sep, i + 1, Append(cur, s[i]))

\* String.prototype.split with a non-empty separator.
Split(s, sep) == SplitFrom(s, sep, 1, <<>>)

RECURSIVE Join(_, _)
\* Array.prototype.join.
Join(segs, sep) ==
    IF Len(segs) = 0 THEN <<>>
    ELSE IF Len(segs) = 1 THEN segs[1]
    ELSE segs[1] \o sep \o Join(Tail(segs), sep)

DigitVal(c) == (CHOOSE i \in 1..10 : Digits[i] = c) - 1
IsDigit(c) == \E i \in 1..10 : Digits[i] = c

RECURSIVE ParseDigits(_, _, _)
ParseDigits(s, i, acc) ==
    IF i > Len(s) \/ ~IsDigit(s[i]) THEN acc
    ELSE ParseDigits(s, i + 1, acc * 10 + DigitVal(s[i]))

\* parseInt(s, 10) on strings without sign or blanks: the value of the
\* leading decimal digits, NaN when the string does not start with a digit.
ParseInt(s) ==
    IF Len(s) = 0 \/ ~IsDigit(s[1]) THEN NaN ELSE ParseDigits(s, 1, 0)

RECURSIVE NatToStr(_)
\* The decimal numeral of a natural number, as the caller writes a port.
NatToStr(n) ==
    IF n < 10 THEN <<Digits[n + 1]>>
    ELSE NatToStr(n \div 10) \o <<Digits[(n % 10) + 1]>>

\* -------------------------------------------------------------------- JSON
\* JSON values: null, natural numbers and arrays. Texts are written with the
\* characters 0-9 [ ] , and the literal null, without blanks.
JNull == [t |-> "null", n |-> 0, items |-> <<>>]
JNum(k) == [t |-> "num", n |-> k, items |-> <<>>]
JArr(s) == [t |-> "arr", n |-> 0, items |-> s]
NullText == <<"n", "u", "l", "l">>

RECURSIVE Stringify(_)
RECURSIVE StringifyItems(_)
\* JSON.stringify.
Stringify(v) ==
    IF v.t = "null" THEN NullText
    ELSE IF v.t = "num" THEN NatToStr(v.n)
    ELSE <<"[">> \o StringifyItems(v.items) \o <<"]">>
StringifyItems(vs) ==
    IF Len(vs) = 0 THEN <<>>
    ELSE IF Len(vs) = 1 THEN Stringify(vs[1])
    ELSE Stringify(vs[1]) \o <<",">> \o StringifyItems(Tail(vs))

RECURSIVE DigitsEnd(_, _)
\* The index after the run of digits that starts at i.
DigitsEnd(s, i) ==
    IF i > Len(s) \/ ~IsDigit(s[i]) THEN i ELSE DigitsEnd(s, i + 1)

ParseFail == [ok |-> FALSE, v |-> JNull, next |-> 0]

RECURSIVE ParseValue(_, _)
RECURSIVE ParseItems(_, _, _)
\* One JSON value read from position i: the value and the position after it.
ParseValue(s, i) ==
    IF i > Len(s) THEN ParseFail
    ELSE IF IsDigit(s[i]) THEN
        IF s[i] = "0" THEN [ok |-> TRUE, v |-> JNum(0), next |-> i + 1]
        ELSE [ok |-> TRUE, v |-> JNum(ParseDigits(s, i, 0)),
              next |-> DigitsEnd(s, i)]
    ELSE IF s[i] = "[" THEN
        IF i + 1 <= Len(s) /\ s[i + 1] = "]"
        THEN [ok |-> TRUE, v |-> JArr(<<>>), next |-> i + 2]
        ELSE ParseItems(s, i + 1, <<>>)
    ELSE IF i + 3 <= Len(s) /\ SubSeq(s, i, i + 3) = NullText
        THEN [ok |-> TRUE, v |-> JNull, next |-> i + 4]
    ELSE ParseFail
ParseItems(s, i, acc) ==
    LET r == ParseValue(s, i) IN
    IF ~r.ok \/ r.next > Len(s) THEN ParseFail
    ELSE IF s[r.next] = "]"
        THEN [ok |-> TRUE, v |-> JArr(Append(acc, r.v)), next |-> r.next + 1]
    ELSE IF s[r.next] = ","
        THEN ParseItems(s, r.next + 1, Append(acc, r.v))
    ELSE ParseFail

\* Variant: a parser that stops after the first value and ignores the rest.
JsonParsePrefix(s) ==
    LET r == ParseValue(s, 1) IN
    IF r.ok THEN [ok |-> TRUE, v |-> r.v] ELSE [ok |-> FALSE, v |-> JNull]

\* JSON.parse: the text must be one value and nothing else; ok is FALSE where
\* JSON.parse raises a SyntaxError.
JsonParse(s) ==
    LET r == ParseValue(s, 1) IN
    IF r.ok /\ r.next = Len(s) + 1
    THEN [ok |-> TRUE, v |-> r.v] ELSE [ok |-> FALSE, v |-> JNull]

\* Variant: the body is parsed as it is, without the "|| null".
JsonArgRaw(d) == d

\* The argument of JSON.parse in json() and jsonPassive(): this.data || null,
\* where JSON.parse turns null into the text "null".
JsonArg(d) == IF d # <<>> THEN d ELSE NullText

\* ------------------------------------------------- arguments given to tcp()
\* Valid hosts: names without a colon, and IPv6 addresses in compressed form
\* (one "::" and no other colon).
Names == {[i \in 1..n |-> "a"] : n \in 1..MaxHostLen}
V6Chars == {"1", ":"}
IsV6(h) ==
    \E i \in 1..(Len(h) - 1) :
        /\ h[i] = ":" /\ h[i + 1] = ":"
        /\ \A j \in 1..Len(h) : h[j] = ":" => j \in {i, i + 1}
V6Hosts == {h \in UNION {[1..n -> V6Chars] : n \in 2..MaxHostLen} : IsV6(h)}
Hosts == Names \cup V6Hosts
Schemes == {Http, Https}
PortNums == {8080}
Paths == {<<"/", "s">>}
Bodies == {<<>>, <<"x">>}
\* Payloads of send() that are not strings.
Objects == {JArr(<<JNum(1)>>), JNull}
Payloads ==
    {[kind |-> "string", text |-> b, val |-> JNull] : b \in Bodies}
        \cup {[kind |-> "object", text |-> <<>>, val |-> v] : v \in Objects}
\* Arguments of set(), timeout() and of the assignment to DefaultTimeout.
HeaderWrites == {<<"Content-Type", "text/plain">>, <<"X", "1">>, <<"X", "2">>}
Seconds == {0, 5}
OtherDefaults == {30}

\* Each argument carries, beside the string itself, how it was put together.
HostPortArgs ==
    {[str |-> sc \o SchemeSep \o h \o Colon \o NatToStr(p), form |-> "hostport",
      scheme |-> sc, host |-> h, portNum |-> p] :
        sc \in Schemes, h \in Hosts, p \in PortNums}
HostArgs ==
    {[str |-> sc \o SchemeSep \o h, form |-> "host",
      scheme |-> sc, host |-> h, portNum |-> UndefinedNum] :
        sc \in Schemes, h \in Hosts}
NoSepArgs ==
    {[str |-> s, form |-> "nosep", scheme |-> <<>>, host |-> <<>>,
      portNum |-> UndefinedNum] :
        s \in {Https, <<"a", ":", "8">>}}
EmptyHostArgs ==
    {[str |-> sc \o SchemeSep, form |-> "emptyhost", scheme |-> sc,
      host |-> <<>>, portNum |-> UndefinedNum] : sc \in Schemes}
    \cup
    {[str |-> Http \o SchemeSep \o Colon \o NatToStr(p), form |-> "emptyhost",
      scheme |-> Http, host |-> <<>>, portNum |-> p] : p \in PortNums}
TcpArgs == HostPortArgs \cup HostArgs \cup NoSepArgs \cup EmptyHostArgs
NoArg == [str |-> <<>>, form |-> "none", scheme |-> <<>>, host |-> <<>>,
          portNum |-> UndefinedNum]

\* ------------------------------------------------------------------- state
VARIABLES
    ssl,          \* Request.ssl (undefined reads as false)
    hostname,     \* Request.hostname
    port,         \* Request.port
    socketPath,   \* Request.socketPath
    data,         \* Request.data, the request body
    headers,      \* Request.headers
    ttl,          \* Request.ttl, in milliseconds
    skipVerify,   \* Request.skipVerify (undefined reads as false)
    defaultTimeout, \* the exported variable DefaultTimeout, in seconds
    writes,       \* the header writes made by set() and send(), in order
    sendArg,      \* the argument of the last send() call
    lastTimeout,  \* the argument of the last timeout() call
    lastSecure,   \* the argument of the last secure() call
    thrown,       \* what the last configuration call threw, "none" if it returned
    lastOp,       \* the last configuration call, "none" before the first
    lastTarget,   \* the last of the tcp()/unix() calls: "none", "tcp", "unix"
    arg,          \* the argument of the last tcp() call
    calls,        \* number of configuration calls made
    pc,           \* "config" until end() is called, then "sent"
    options,      \* the options end() passed to the transport
    client,       \* the client end() used: "none", "http", "https"
    exc,          \* the exception raised inside end(), NoExc if none
    endThrew,     \* end() let an exception escape to its caller
    wire,         \* what end() did with the ClientRequest, in order
    req,          \* the ClientRequest: "none", "open", "destroyed", "closed"
    pendingErr,   \* the error given to req.destroy(), not yet emitted
    resp,         \* the Response built on the response head
    received,     \* the data chunks delivered, in order
    respHeaders,  \* Response.headers, the index get() builds
    lastRead,     \* the last accessor call on the Response and its result
    ended,        \* end-of-stream was delivered
    promise,      \* state of the promise: "none", "pending", "fulfilled", "rejected"
    value,        \* the value or reason the promise settled with
    resolveCalls, \* calls of resolve()
    rejectCalls,  \* calls of reject()
    log,          \* the errors given to Logger.error, in order
    failures      \* failures detected: timeouts, transport errors, exceptions

\* The part of the builder that tcp(), unix() and send() do not touch.
optVars == <<ttl, skipVerify, defaultTimeout, lastTimeout, lastSecure>>
cfgVars == <<ssl, hostname, port, socketPath, data, headers, ttl,
             skipVerify, defaultTimeout, writes, sendArg, lastTimeout,
             lastSecure, thrown, lastOp, lastTarget, arg, calls>>
runVars == <<pc, options, client, exc, endThrew, wire, req, pendingErr, resp,
             received, respHeaders, lastRead, ended, promise, value, resolveCalls, rejectCalls, log,
             failures>>
vars == <<ssl, hostname, port, socketPath, data, headers, ttl, skipVerify,
          defaultTimeout, writes, sendArg, lastTimeout, lastSecure, thrown,
          lastOp, lastTarget, arg, calls, pc, options, client, exc,
          endThrew, wire, req, pendingErr,
          resp, received, respHeaders, lastRead, ended, promise, value,
          resolveCalls, rejectCalls, log, failures>>

Null == [type |-> "null"]
NoExc == [type |-> "none"]
NoValue == [type |-> "none"]
NoResp == [type |-> "none"]
NoOptions == [target |-> "none"]
\* Response.headers before the first get().
NoIndex == [built |-> FALSE, map |-> <<>>]
\* What a Map returns for a key it does not hold.
NotFound == "undefined"
\* A send() argument: a string, or a value that is not a string.
NoPayload == [kind |-> "none", text |-> <<>>, val |-> JNull]
\* export var DefaultTimeout = 20
DefaultTimeoutInit == 20
\* No timeout() or secure() call was made.
NoCall == 0 - 1
NoRead == [op |-> "none", key |-> "", hdr |-> NotFound, text |-> <<>>,
           val |-> JNull, err |-> Null]

Init ==
    /\ ssl = FALSE
    /\ hostname = Undefined
    /\ port = UndefinedNum
    /\ socketPath = Undefined
    /\ data = Undefined
    /\ headers = <<>>
    /\ ttl = UndefinedNum
    /\ skipVerify = FALSE
    /\ defaultTimeout = DefaultTimeoutInit
    /\ writes = <<>>
    /\ sendArg = NoPayload
    /\ lastTimeout = NoCall
    /\ lastSecure = "none"
    /\ thrown = "none"
    /\ lastOp = "none"
    /\ lastTarget = "none"
    /\ arg = NoArg
    /\ calls = 0
    /\ pc = "config"
    /\ options = NoOptions
    /\ client = "none"
    /\ exc = NoExc
    /\ endThrew = FALSE
    /\ wire = <<>>
    /\ req = "none"
    /\ pendingErr = Null
    /\ resp = NoResp
    /\ received = <<>>
    /\ respHeaders = NoIndex
    /\ lastRead = NoRead
    /\ ended = FALSE
    /\ promise = "none"
    /\ value = NoValue
    /\ resolveCalls = 0
    /\ rejectCalls = 0
    /\ log = <<>>
    /\ failures = 0

\* ----------------------------------------------------------------- Map
\* map.set(key, value) on a Map held as a function.
MapSet(m, key, v) ==
    [k \in DOMAIN m \cup {key} |-> IF k = key THEN v ELSE m[k]]
\* map.get(key).
MapGet(m, key) == IF key \in DOMAIN m THEN m[key] ELSE NotFound

\* ------------------------------------------------------ Request.tcp / unix
DefaultPortTLS == 443
DefaultPortPlain == 80

\* this.ssl = hosts[0] === "https"
TcpSsl(hosts) == hosts[1] = Https

\* The port tcp() stores, from the colon-separated segments after "://".
TcpPort(isSsl, segs) ==
    IF Len(segs) > 1 THEN ParseInt(segs[Len(segs)])
    ELSE IF isSsl THEN DefaultPortTLS ELSE DefaultPortPlain

\* Variant: only the first colon-separated segment is kept as hostname.
TcpHostnameFirst(segs) == segs[1]

\* The hostname tcp() stores: the segments left after hosts.pop(), rejoined.
TcpHostname(segs) ==
    Join(IF Len(segs) > 1 THEN SubSeq(segs, 1, Len(segs) - 1) ELSE segs, Colon)

\* tcp(host): the assignment to this.ssl happens before hosts[1].split(":"),
\* which raises a TypeError when the argument holds no "://".
Tcp(a) ==
    /\ pc = "config"
    /\ calls < MaxCalls
    /\ LET hosts == Split(a.str, SchemeSep) IN
        /\ ssl' = TcpSsl(hosts)
        /\ IF Len(hosts) < 2
           THEN /\ thrown' = "TypeError"
                /\ UNCHANGED <<hostname, port>>
           ELSE LET segs == Split(hosts[2], Colon) IN
                /\ thrown' = "none"
                /\ port' = TcpPort(ssl', segs)
                /\ hostname' = TcpHostname(segs)
    /\ lastOp' = "tcp"
    /\ lastTarget' = "tcp"
    /\ arg' = a
    /\ calls' = calls + 1
    /\ UNCHANGED <<socketPath, data, headers, writes, sendArg>>
    /\ UNCHANGED optVars
    /\ UNCHANGED runVars

Unix(path) ==
    /\ pc = "config"
    /\ calls < MaxCalls
    /\ socketPath' = path
    /\ thrown' = "none"
    /\ lastOp' = "unix"
    /\ lastTarget' = "unix"
    /\ calls' = calls + 1
    /\ UNCHANGED <<ssl, hostname, port, data, arg, headers, writes, sendArg>>
    /\ UNCHANGED optVars
    /\ UNCHANGED runVars

\* Variant: send() sets the Content-Type header for every payload.
SendHeadersAlways(h, payload) == MapSet(h, "Content-Type", "application/json")

\* The headers after send(): a payload that is not a string sets
\* Content-Type.
SendHeaders(h, payload) ==
    IF payload.kind = "string" THEN h
    ELSE MapSet(h, "Content-Type", "application/json")

\* The body send() stores: the string itself, else JSON.stringify(data).
SendData(payload) ==
    IF payload.kind = "string" THEN payload.text ELSE Stringify(payload.val)

\* send(data)
Send(payload) ==
    /\ pc = "config"
    /\ calls < MaxCalls
    /\ data' = SendData(payload)
    /\ headers' = SendHeaders(headers, payload)
    /\ writes' = IF payload.kind = "string" THEN writes
                 ELSE Append(writes, <<"Content-Type", "application/json">>)
    /\ sendArg' = payload
    /\ thrown' = "none"
    /\ lastOp' = "send"
    /\ calls' = calls + 1
    /\ UNCHANGED <<ssl, hostname, port, socketPath, lastTarget, arg>>
    /\ UNCHANGED optVars
    /\ UNCHANGED runVars

\* set(key, value)
Set(key, v) ==
    /\ pc = "config"
    /\ calls < MaxCalls
    /\ headers' = MapSet(headers, key, v)
    /\ writes' = Append(writes, <<key, v>>)
    /\ thrown' = "none"
    /\ lastOp' = "set"
    /\ calls' = calls + 1
    /\ UNCHANGED <<ssl, hostname, port, socketPath, data, sendArg,
                   lastTarget, arg>>
    /\ UNCHANGED optVars
    /\ UNCHANGED runVars

\* timeout(seconds)
Timeout(seconds) ==
    /\ pc = "config"
    /\ calls < MaxCalls
    /\ ttl' = seconds * 1000
    /\ lastTimeout' = seconds
    /\ thrown' = "none"
    /\ lastOp' = "timeout"
    /\ calls' = calls + 1
    /\ UNCHANGED <<ssl, hostname, port, socketPath, data, headers, writes,
                   sendArg, lastTarget, arg, skipVerify, defaultTimeout,
                   lastSecure>>
    /\ UNCHANGED runVars

\* secure(secure)
Secure(on) ==
    /\ pc = "config"
    /\ calls < MaxCalls
    /\ skipVerify' = ~on
    /\ lastSecure' = IF on THEN "true" ELSE "false"
    /\ thrown' = "none"
    /\ lastOp' = "secure"
    /\ calls' = calls + 1
    /\ UNCHANGED <<ssl, hostname, port, socketPath, data, headers, writes,
                   sendArg, lastTarget, arg, ttl, defaultTimeout,
                   lastTimeout>>
    /\ UNCHANGED runVars

\* The embedding application assigns DefaultTimeout before end() is called.
SetDefaultTimeout(seconds) ==
    /\ pc = "config"
    /\ calls < MaxCalls
    /\ defaultTimeout' = seconds
    /\ thrown' = "none"
    /\ lastOp' = "default"
    /\ calls' = calls + 1
    /\ UNCHANGED <<ssl, hostname, port, socketPath, data, headers, writes,
                   sendArg, lastTarget, arg, ttl, skipVerify, lastTimeout,
                   lastSecure>>
    /\ UNCHANGED runVars

\* ------------------------------------------------------------- Request.end
Statuses == {200, 404}
StatusMessage(st) == IF st = 200 THEN "OK" ELSE "Not Found"
ChunkSet == {<<>>, <<"1">>, <<"[", "]">>}
HeaderNames == {"A", "a"}
HeaderValues == {"1", "2"}
\* The raw headers of a response: names and values in turn.
RawPairs == {<<n, v>> : n \in HeaderNames, v \in HeaderValues}
RECURSIVE Flatten(_)
Flatten(ss) == IF Len(ss) = 0 THEN <<>> ELSE ss[1] \o Flatten(Tail(ss))
RawHeaderSeqs ==
    {Flatten(ps) : ps \in UNION {[1..k -> RawPairs] : k \in 0..MaxHeaders}}
\* The raw headers of the responses whose headers are not looked at.
SampleRaw == <<"A", "1", "a", "2">>
\* Errors the transport reports: refused connection, reset in mid-stream.
Causes == {[type |-> "cause", name |-> "ECONNREFUSED"],
           [type |-> "cause", name |-> "ECONNRESET"]}
\* Exceptions raised inside the try block of end().
Exceptions == {[type |-> "cause", name |-> "TypeError"]}
\* Where the try block may raise: in http.request(), or in req.write().
ThrowPoints == {"none", "request", "write"}

\* new Errors.RequestError(null, "Request: Timeout error")
TimeoutErr ==
    [type |-> "error", kind |-> "RequestError", cause |-> Null,
     msg |-> "Request: Timeout error"]

\* new Errors.RequestError(err, "Request: Client error")
ClientErr(cause) ==
    [type |-> "error", kind |-> "RequestError", cause |-> cause,
     msg |-> "Request: Client error"]

\* new Errors.RequestError(err, "Request: Exception")
ExceptionErr(cause) ==
    [type |-> "error", kind |-> "RequestError", cause |-> cause,
     msg |-> "Request: Exception"]

\* Variant: the catch clause lets the exception through unwrapped.
CatchRethrow(cause) == [escapes |-> TRUE, err |-> cause]

\* The catch clause of end(): the exception does not escape, it is wrapped.
Catch(cause) == [escapes |-> FALSE, err |-> ExceptionErr(cause)]

\* Variant: a settlement that overwrites an earlier one.
SettleUnguarded(state, to) == to

\* A promise changes state only while it is pending.
Settle(state, to) == IF state = "pending" THEN to ELSE state
SettleValue(state, cur, v) == IF state = "pending" THEN v ELSE cur

Resolve(v) ==
    /\ promise' = Settle(promise, "fulfilled")
    /\ value' = SettleValue(promise, value, v)
    /\ resolveCalls' = resolveCalls + 1
    /\ UNCHANGED rejectCalls

Reject(e) ==
    /\ promise' = Settle(promise, "rejected")
    /\ value' = SettleValue(promise, value, e)
    /\ rejectCalls' = rejectCalls + 1
    /\ UNCHANGED resolveCalls

\* Variant: the default timeout as it was when the module was loaded.
EndTimeoutInitialDefault ==
    IF ttl # UndefinedNum /\ ttl # 0 THEN ttl ELSE DefaultTimeoutInit * 1000

\* options.timeout = this.ttl || (DefaultTimeout * 1000)
EndTimeout ==
    IF ttl # UndefinedNum /\ ttl # 0 THEN ttl ELSE defaultTimeout * 1000

\* Variant: certificate validation is switched off unless it was asked for.
EndRejectUnauthorizedInverted == IF skipVerify THEN "unset" ELSE "false"

\* options.rejectUnauthorized: false when this.skipVerify, else not set, and
\* the transport validates certificates.
EndRejectUnauthorized == IF skipVerify THEN "false" ELSE "unset"

\* The options of end(): path, method and headers, the target (the socket
\* path when it is set and not empty, the hostname and port otherwise),
\* rejectUnauthorized and timeout.
EndOptions ==
    IF Truthy(socketPath)
    THEN [target |-> "unix", socketPath |-> socketPath, headers |-> headers,
          rejectUnauthorized |-> EndRejectUnauthorized,
          timeout |-> EndTimeout]
    ELSE [target |-> "tcp", hostname |-> hostname, port |-> port,
          headers |-> headers,
          rejectUnauthorized |-> EndRejectUnauthorized,
          timeout |-> EndTimeout]

\* Variant: end-of-request is signalled before the body is written.
EndWireEndFirst(throwAt) ==
    IF throwAt = "request" THEN <<>>
    ELSE <<"on timeout", "on error">>
            \o (IF throwAt = "write" THEN <<>> ELSE <<"end">>)
            \o (IF Truthy(data) /\ throwAt # "write" THEN <<"write">>
                ELSE <<>>)

\* What end() does with the ClientRequest once http.request() returned it:
\* the two handlers, req.write(this.data) when a body is set, req.end().
\* A write that raises writes nothing, and req.end() is not reached.
EndWire(throwAt) ==
    IF throwAt = "request" THEN <<>>
    ELSE <<"on timeout", "on error">>
            \o (IF Truthy(data) /\ throwAt # "write" THEN <<"write">>
                ELSE <<>>)
            \o (IF throwAt = "write" THEN <<>> ELSE <<"end">>)

\* Variant: a request to a socket path always uses the plain client.
EndClientPlainForSocket ==
    IF ssl /\ ~Truthy(socketPath) THEN "https" ELSE "http"

\* https.request when this.ssl, http.request otherwise.
EndClient == IF ssl THEN "https" ELSE "http"

\* end(): the promise executor runs synchronously up to req.end() or to the
\* catch clause.
End(throwAt, cause) ==
    /\ pc = "config"
    /\ throwAt = "write" => Truthy(data)
    /\ pc' = "sent"
    /\ options' = EndOptions
    /\ client' = EndClient
    /\ wire' = EndWire(throwAt)
    /\ req' = IF throwAt = "request" THEN "none" ELSE "open"
    /\ IF throwAt = "none"
       THEN /\ exc' = NoExc
            /\ endThrew' = FALSE
            /\ promise' = "pending"
            /\ value' = NoValue
            /\ log' = log
            /\ failures' = failures
            /\ rejectCalls' = rejectCalls
       ELSE /\ exc' = cause
            /\ endThrew' = Catch(cause).escapes
            /\ promise' = Settle("pending", "rejected")
            /\ value' = SettleValue("pending", NoValue, Catch(cause).err)
            /\ log' = Append(log, Catch(cause).err)
            /\ failures' = failures + 1
            /\ rejectCalls' = rejectCalls + 1
    /\ UNCHANGED <<pendingErr, resp, received, respHeaders, lastRead, ended,
                   resolveCalls>>
    /\ UNCHANGED cfgVars

\* Variant: the callback resolves the promise as soon as the head arrives.
OnResponseResolveEarly(status, raw) ==
    /\ req = "open"
    /\ resp = NoResp
    /\ resp' = [type |-> "response", status |-> status,
                message |-> StatusMessage(status), raw |-> raw, data |-> <<>>]
    /\ Resolve(resp')
    /\ UNCHANGED <<pc, options, client, exc, endThrew, wire, req, pendingErr,
                   received, respHeaders, lastRead, ended, log, failures>>
    /\ UNCHANGED cfgVars

\* The response head arrives: callback(nodeResp) builds the Response.
OnResponse(status, raw) ==
    /\ req = "open"
    /\ resp = NoResp
    /\ resp' = [type |-> "response", status |-> status,
                message |-> StatusMessage(status), raw |-> raw, data |-> <<>>]
    /\ UNCHANGED <<pc, options, client, exc, endThrew, wire, req, pendingErr,
                   received, respHeaders, lastRead, ended, promise, value, resolveCalls, rejectCalls,
                   log, failures>>
    /\ UNCHANGED cfgVars

\* Variant: the chunk is put in front of resp.data.
OnDataPrepend(chunk) ==
    /\ req = "open"
    /\ resp # NoResp
    /\ ~ended
    /\ Len(received) < MaxChunks
    /\ resp' = [resp EXCEPT !.data = chunk \o @]
    /\ received' = Append(received, chunk)
    /\ UNCHANGED <<pc, options, client, exc, endThrew, wire, req, pendingErr,
                   respHeaders, lastRead, ended, promise, value,
                   resolveCalls, rejectCalls, log, failures>>
    /\ UNCHANGED cfgVars

\* nodeResp "data": the chunk is appended to resp.data.
OnData(chunk) ==
    /\ req = "open"
    /\ resp # NoResp
    /\ ~ended
    /\ Len(received) < MaxChunks
    /\ resp' = [resp EXCEPT !.data = @ \o chunk]
    /\ received' = Append(received, chunk)
    /\ UNCHANGED <<pc, options, client, exc, endThrew, wire, req, pendingErr,
                   respHeaders, lastRead, ended, promise, value, resolveCalls, rejectCalls, log,
                   failures>>
    /\ UNCHANGED cfgVars

\* nodeResp "end": resolve(resp). The transport may still deliver it after
\* the request was destroyed by the timeout handler.
OnEnd ==
    /\ req \in {"open", "destroyed"}
    /\ resp # NoResp
    /\ ~ended
    /\ ended' = TRUE
    /\ Resolve(resp)
    /\ UNCHANGED <<pc, options, client, exc, endThrew, wire, req, pendingErr, resp,
                   received, respHeaders, lastRead, log, failures>>
    /\ UNCHANGED cfgVars

\* req "timeout": the handler destroys the request with the error it made,
\* logs it and rejects. req.destroy(err) makes the transport emit "error"
\* with err afterwards.
OnTimeout ==
    /\ req = "open"
    /\ req' = "destroyed"
    /\ pendingErr' = TimeoutErr
    /\ log' = Append(log, TimeoutErr)
    /\ Reject(TimeoutErr)
    /\ failures' = failures + 1
    /\ UNCHANGED <<pc, options, client, exc, endThrew, wire, resp, received,
                   respHeaders, lastRead, ended>>
    /\ UNCHANGED cfgVars

\* Variant: the error handler logs the error and does not reject.
OnErrorNoReject(cause) ==
    /\ \/ req = "open" /\ cause \in Causes
       \/ req = "destroyed" /\ pendingErr # Null /\ cause = pendingErr
    /\ req' = "closed"
    /\ pendingErr' = Null
    /\ log' = Append(log, ClientErr(cause))
    /\ failures' = IF req = "open" THEN failures + 1 ELSE failures
    /\ UNCHANGED <<pc, options, client, exc, endThrew, wire, resp, received,
                   respHeaders, lastRead, ended, promise, value,
                   resolveCalls, rejectCalls>>
    /\ UNCHANGED cfgVars

\* req "error", reported by the transport itself (req is open) or emitted
\* for the error given to req.destroy().
OnError(cause) ==
    /\ \/ req = "open" /\ cause \in Causes
       \/ req = "destroyed" /\ pendingErr # Null /\ cause = pendingErr
    /\ req' = "closed"
    /\ pendingErr' = Null
    /\ log' = Append(log, ClientErr(cause))
    /\ Reject(ClientErr(cause))
    /\ failures' = IF req = "open" THEN failures + 1 ELSE failures
    /\ UNCHANGED <<pc, options, client, exc, endThrew, wire, resp, received,
                   respHeaders, lastRead, ended>>
    /\ UNCHANGED cfgVars

\* ---------------------------------------------------------------- Response
RECURSIVE IndexFirstFrom(_, _, _, _)
IndexFirstFrom(raw, i, curKey, m) ==
    IF i > Len(raw) THEN m
    ELSE IF curKey # ""
         THEN IndexFirstFrom(raw, i + 1, "",
                             IF curKey \in DOMAIN m THEN m
                             ELSE MapSet(m, curKey, raw[i]))
         ELSE IndexFirstFrom(raw, i + 1, raw[i], m)
\* Variant: the first occurrence of a name is kept.
BuildIndexFirst(raw) == IndexFirstFrom(raw, 1, "", <<>>)

RECURSIVE IndexFrom(_, _, _, _)
\* The loop of get() over rawHeaders: an item is a name when curKey is
\* empty, else the value of curKey.
IndexFrom(raw, i, curKey, m) ==
    IF i > Len(raw) THEN m
    ELSE IF curKey # ""
         THEN IndexFrom(raw, i + 1, "", MapSet(m, curKey, raw[i]))
         ELSE IndexFrom(raw, i + 1, raw[i], m)
BuildIndex(raw) == IndexFrom(raw, 1, "", <<>>)

\* new Errors.ReadError(err, "Request: JSON parse failed")
ReadErr(cause) ==
    [type |-> "error", kind |-> "ReadError", cause |-> cause,
     msg |-> "Request: JSON parse failed"]
SyntaxErr == [type |-> "cause", name |-> "SyntaxError"]

\* The caller reads the Response after the promise delivered it.
CanRead == promise = "fulfilled"

\* get(key): the index is built on the first call and kept.
Get(key) ==
    /\ CanRead
    /\ LET index == IF respHeaders.built THEN respHeaders.map
                    ELSE BuildIndex(resp.raw) IN
        /\ respHeaders' = [built |-> TRUE, map |-> index]
        /\ lastRead' = [NoRead EXCEPT !.op = "get", !.key = key,
                                      !.hdr = MapGet(index, key)]
    /\ UNCHANGED <<pc, options, client, exc, endThrew, wire, req, pendingErr, resp,
                   received, ended, promise, value, resolveCalls,
                   rejectCalls, log, failures>>
    /\ UNCHANGED cfgVars

\* json(): a parse failure is thrown as a ReadError.
Json ==
    /\ CanRead
    /\ LET r == JsonParse(JsonArg(resp.data)) IN
        lastRead' = [NoRead EXCEPT !.op = "json", !.val = r.v,
                        !.err = IF r.ok THEN Null ELSE ReadErr(SyntaxErr)]
    /\ UNCHANGED <<pc, options, client, exc, endThrew, wire, req, pendingErr, resp,
                   received, respHeaders, ended, promise, value,
                   resolveCalls, rejectCalls, log, failures>>
    /\ UNCHANGED cfgVars

\* jsonPassive(): a parse failure gives null.
JsonPassive ==
    /\ CanRead
    /\ LET r == JsonParse(JsonArg(resp.data)) IN
        lastRead' = [NoRead EXCEPT !.op = "jsonPassive",
                        !.val = IF r.ok THEN r.v ELSE JNull]
    /\ UNCHANGED <<pc, options, client, exc, endThrew, wire, req, pendingErr, resp,
                   received, respHeaders, ended, promise, value,
                   resolveCalls, rejectCalls, log, failures>>
    /\ UNCHANGED cfgVars

\* string()
String ==
    /\ CanRead
    /\ lastRead' = [NoRead EXCEPT !.op = "string", !.text = resp.data]
    /\ UNCHANGED <<pc, options, client, exc, endThrew, wire, req, pendingErr, resp,
                   received, respHeaders, ended, promise, value,
                   resolveCalls, rejectCalls, log, failures>>
    /\ UNCHANGED cfgVars

\* ----------------------------------------------------------- specification
\* The three specifications below are the program under three uses of it,
\* each with the calls and events the others leave out held fixed: the
\* handlers of an exchange read no field of the builder, and the accessors
\* of the Response read nothing but the Response.
SetBody == \E b \in Payloads : Send(b)

Configure ==
    \/ \E a \in TcpArgs : Tcp(a)
    \/ \E p \in Paths : Unix(p)
    \/ SetBody

\* The other builder calls, and the assignment to DefaultTimeout.
ConfigureOptions ==
    \/ \E w \in HeaderWrites : Set(w[1], w[2])
    \/ \E t \in Seconds : Timeout(t)
    \/ \E on \in BOOLEAN : Secure(on)
    \/ \E t \in OtherDefaults : SetDefaultTimeout(t)

Execute == \E t \in ThrowPoints, c \in Exceptions : End(t, c)

Receive ==
    \/ \E st \in Statuses : OnResponse(st, SampleRaw)
    \/ \E ch \in ChunkSet : OnData(ch)

\* The events that close an exchange.
Terminal ==
    \/ OnEnd
    \/ OnTimeout
    \/ \E c \in Causes \cup {TimeoutErr} : OnError(c)

\* The caller's reads of the Response.
Read ==
    \/ \E k \in HeaderNames \cup {"B"} : Get(k)
    \/ Json
    \/ JsonPassive
    \/ String

\* One exchange: the body is set, end() is called, the transport delivers
\* its events in any order and the caller reads the Response.
Next == SetBody \/ Execute \/ Receive \/ Terminal \/ Read

Spec == Init /\ [][Next]_vars

\* The transport eventually delivers end-of-stream, a timeout or an error
\* for an exchange that is still open: the socket timeout set from
\* options.timeout fires when nothing else closes the exchange.
LiveSpec == Spec /\ WF_vars(Terminal)

\* The builder with all its calls, and end() up to the return of the
\* promise executor.
CfgNext == Configure \/ ConfigureOptions \/ Execute

CfgSpec == Init /\ [][CfgNext]_vars

\* The exchange of a Request sent as it was constructed, answered without a
\* failure, with every header sequence, and the reads of its Response.
RespNext ==
    \/ End("none", NoExc)
    \/ \E st \in Statuses, raw \in RawHeaderSeqs : OnResponse(st, raw)
    \/ \E ch \in ChunkSet : OnData(ch)
    \/ OnEnd
    \/ Read

RespSpec == Init /\ [][RespNext]_vars

\* ------------------------------------------------------------------ claims
Settled == promise \in {"fulfilled", "rejected"}

\* C1: once the promise of end() is settled, no later resolve() or reject()
\* changes its state or its value, whatever order the transport events
\* (head, data, end, timeout, error) arrive in.
C1_SettledOnce ==
    [][Settled => (promise' = promise /\ value' = value)]_vars

\* A timeout rejected the promise, the error of destroy() was delivered and
\* a late end-of-stream called resolve() on the rejected promise.
C1_Witness ==
    /\ promise = "rejected"
    /\ ended
    /\ resolveCalls >= 1
    /\ rejectCalls >= 2

\* C2: when the transport eventually delivers end-of-stream, a timeout or an
\* error, every call of end() leads to a settled promise.
C2_EventuallySettles == (pc = "sent") ~> Settled

\* The exchange failed after the response head and before end-of-stream,
\* and the promise is rejected.
C2_Witness ==
    /\ resp # NoResp
    /\ ~ended
    /\ exc = NoExc
    /\ promise = "rejected"

\* C3: a promise rejected by the timeout handler carries an error of kind
\* TimeoutError, and the connection has been destroyed.
C3_TimeoutError ==
    (promise = "rejected" /\ value.msg = "Request: Timeout error") =>
        (value.kind = "TimeoutError" /\ req \in {"destroyed", "closed"})

\* C4: a promise rejected by the error handler carries an error of kind
\* ClientError that wraps the cause, a kind the timeout handler and the catch
\* clause do not use.
C4_ClientError ==
    (promise = "rejected" /\ value.msg = "Request: Client error") =>
        /\ value.kind = "ClientError"
        /\ value.cause \in Causes \cup {TimeoutErr}
        /\ value.kind # TimeoutErr.kind
        /\ value.kind # ExceptionErr(Null).kind

\* C5: an exception raised inside end() does not escape; the promise is
\* rejected with a RequestError wrapping the exception and is not resolved.
C5_ExceptionRejects ==
    exc # NoExc =>
        /\ ~endThrew
        /\ promise = "rejected"
        /\ value.type = "error"
        /\ value.kind = "RequestError"
        /\ value.cause = exc

\* req.write() raised after the handlers were registered, and the response
\* ended later: resolve() was called on the rejected promise.
C5_Witness ==
    /\ exc # NoExc
    /\ req # "none"
    /\ resolveCalls >= 1

\* C6: Logger.error is called exactly once for each failure (timeout,
\* transport error, exception) of the exchange.
C6_LoggedOncePerFailure == Len(log) = failures

\* C7: for scheme://host:port, tcp() stores the host, the port and TLS
\* exactly for https, also when the host holds colons.
C7_HostPort ==
    (lastOp = "tcp" /\ arg.form = "hostport") =>
        /\ thrown = "none"
        /\ hostname = arg.host
        /\ port = arg.portNum
        /\ ssl = (arg.scheme = Https)

\* tcp() was given an IPv6 host with a port.
C7_Witness ==
    /\ lastOp = "tcp"
    /\ arg.form = "hostport"
    /\ arg.host \in V6Hosts
    /\ Len(arg.host) = 3
    /\ hostname = arg.host
    /\ port = 8080

\* C8: for scheme://host without a port, tcp() stores the whole host and
\* the default port of the scheme, for every valid host.
C8_HostDefault ==
    (lastOp = "tcp" /\ arg.form = "host") =>
        /\ thrown = "none"
        /\ hostname = arg.host
        /\ port = (IF arg.scheme = Https THEN 443 ELSE 80)
        /\ ssl = (arg.scheme = Https)

\* C9: tcp() with an argument without "://" or with an empty host raises a
\* ConfigError and leaves the target of the Request as it was.
C9_ConfigError ==
    [][(lastOp' = "tcp" /\ calls' = calls + 1
            /\ arg'.form \in {"nosep", "emptyhost"}) =>
        (thrown' = "ConfigError"
            /\ hostname' = hostname /\ port' = port /\ ssl' = ssl)]_vars

\* C10: end() targets the transport of the last tcp() or unix() call: the
\* hostname and port after a tcp() call that returned, the socket path after
\* a unix() call.
C10_LastCallWins ==
    (pc = "sent" /\ lastTarget # "none") =>
        /\ (lastTarget = "tcp" /\ arg.form \in {"hostport", "host"}) =>
            (options.target = "tcp" /\ options.hostname = hostname
                /\ options.port = port)
        /\ lastTarget = "unix" =>
            (options.target = "unix" /\ options.socketPath = socketPath)

\* The JSON values whose text a response body of the model can be, and a few
\* more: the valid JSON texts are the texts Stringify gives for them.
RECURSIVE Ones(_)
Ones(k) == IF k = 0 THEN 0 ELSE 10 * Ones(k - 1) + 1
JsonNums == {JNum(n) : n \in 0..Ones(MaxChunks)}
JsonValues ==
    JsonNums \cup {JNull, JArr(<<>>)}
        \cup {JArr(<<v>>) : v \in JsonNums \cup {JNull, JArr(<<>>)}}
IsJsonText(text) == \E v \in JsonValues : Stringify(v) = text
ValueOfText(text) == CHOOSE v \in JsonValues : Stringify(v) = text

IsReadError(e) ==
    e.type = "error" /\ e.kind = "ReadError" /\ e.cause = SyntaxErr

JsonReadRight(read, body) ==
    /\ read.op = "json" =>
        IF IsJsonText(body)
        THEN read.err = Null /\ read.val = ValueOfText(body)
        ELSE IF body = <<>>
        THEN read.err = Null /\ read.val = JNull
        ELSE IsReadError(read.err)
    /\ read.op = "jsonPassive" =>
        /\ read.err = Null
        /\ read.val = IF IsJsonText(body) THEN ValueOfText(body) ELSE JNull

LastValue(raw, key) ==
    LET at == {i \in 1..(Len(raw) \div 2) : raw[2 * i - 1] = key} IN
    IF at = {} THEN NotFound
    ELSE raw[2 * (CHOOSE i \in at : \A j \in at : j <= i)]

\* C12: get(name) returns the value of the last occurrence of exactly that
\* name in the raw headers, or the sentinel when the name is absent; the
\* index exists from the first lookup on and never changes afterwards.
C12_HeaderLookup ==
    [][/\ respHeaders.built => respHeaders' = respHeaders
       /\ lastRead'.op = "get" =>
            /\ respHeaders'.built
            /\ lastRead'.hdr = LastValue(resp'.raw, lastRead'.key)
      ]_vars

\* A name that occurs twice was looked up and gave its second value.
C12_Witness ==
    /\ lastRead.op = "get"
    /\ lastRead.key = "A"
    /\ resp.raw = <<"A", "1", "A", "2">>
    /\ lastRead.hdr = "2"
    /\ respHeaders.built

\* C20: when no data chunk or only empty chunks arrived, json() and
\* jsonPassive() return null without an error and string() returns "".
C20_EmptyBody ==
    (CanRead /\ \A i \in 1..Len(received) : received[i] = <<>>) =>
        /\ lastRead.op \in {"json", "jsonPassive"} =>
            (lastRead.err = Null /\ lastRead.val = JNull)
        /\ lastRead.op = "string" => lastRead.text = <<>>

\* Only an empty chunk arrived and json() was called.
C20_Witness ==
    /\ received = <<(<<>>)>>
    /\ lastRead.op = "json"
    /\ lastRead.val = JNull

\* C15: the promise is fulfilled only after end-of-stream, and the Response
\* it delivers holds the chunks delivered before end-of-stream, joined in the
\* order of delivery, with the status code and message of the head.
C15_ResolvedOnEnd ==
    promise = "fulfilled" =>
        /\ ended
        /\ value.type = "response"
        /\ value.data = Flatten(received)
        /\ value.status \in Statuses
        /\ value.status = resp.status
        /\ value.message = StatusMessage(value.status)

\* Two different chunks arrived and the promise was fulfilled.
C15_Witness ==
    /\ promise = "fulfilled"
    /\ received = <<(<<"[", "]">>), (<<"1">>)>>
    /\ value.data = <<"[", "]", "1">>

\* C18: once the promise is fulfilled, the status, message and body text of
\* the Response stay as they are, whatever events follow.
C18_ResponseFrozen ==
    [][promise = "fulfilled" =>
        /\ resp'.status = resp.status
        /\ resp'.message = resp.message
        /\ resp'.data = resp.data
      ]_vars

\* After the promise was fulfilled with a body, a timeout fired and the
\* error of destroy() was delivered.
C18_Witness ==
    /\ promise = "fulfilled"
    /\ resp.data # <<>>
    /\ rejectCalls >= 2

\* The value of the last write of key in a sequence of header writes.
LastWrite(ws, key) ==
    LET at == {i \in 1..Len(ws) : ws[i][1] = key} IN
    IF at = {} THEN NotFound
    ELSE ws[CHOOSE i \in at : \A j \in at : j <= i][2]

HeaderKeys == {"Content-Type", "X"}
IsCall(op) == lastOp' = op /\ calls' = calls + 1

\* C13: send() with a string stores it and leaves the headers alone; send()
\* with another value stores its JSON text and sets Content-Type to
\* application/json, leaving the other headers alone; after any calls of
\* set() and send() every header holds the value written to it last.
C13_SendAndSet ==
    [][/\ (IsCall("send") /\ sendArg'.kind = "string") =>
            (data' = sendArg'.text /\ headers' = headers)
       /\ (IsCall("send") /\ sendArg'.kind = "object") =>
            /\ JsonParse(data').ok
            /\ JsonParse(data').v = sendArg'.val
            /\ MapGet(headers', "Content-Type") = "application/json"
            /\ MapGet(headers', "X") = MapGet(headers, "X")
       /\ \A k \in HeaderKeys : MapGet(headers', k) = LastWrite(writes', k)
      ]_vars

\* set() wrote Content-Type and a send() with an array overwrote it.
C13_Witness ==
    /\ writes = << <<"Content-Type", "text/plain">>,
                   <<"Content-Type", "application/json">> >>
    /\ MapGet(headers, "Content-Type") = "application/json"
    /\ data = <<"[", "1", "]">>

\* C14: the timeout in the options of end() is seconds * 1000 when the last
\* timeout(seconds) call had a non-zero argument, and else 1000 times the
\* value DefaultTimeout has when end() runs.
C14_Timeout ==
    pc = "sent" =>
        options.timeout =
            IF lastTimeout # NoCall /\ lastTimeout # 0
            THEN lastTimeout * 1000
            ELSE defaultTimeout * 1000

\* timeout(0) was called, the application changed DefaultTimeout, and end()
\* took the changed value.
C14_Witness ==
    /\ pc = "sent"
    /\ lastTimeout = 0
    /\ defaultTimeout = 30
    /\ options.timeout = 30000

Count(w, x) == Cardinality({i \in 1..Len(w) : w[i] = x})
Before(w, x, y) ==
    \A j \in 1..Len(w) : w[j] = y => \E i \in 1..(j - 1) : w[i] = x

ArgScheme(a) == IF a.form = "nosep" THEN a.str ELSE a.scheme

\* C19: end() uses the TLS client exactly when the last tcp() call had the
\* scheme https, whatever unix() calls were made.
C19_ClientFromScheme ==
    pc = "sent" =>
        client = IF arg.form # "none" /\ ArgScheme(arg) = Https
                 THEN "https" ELSE "http"

\* A request that targets a socket path and uses the TLS client.
C19_Witness ==
    /\ pc = "sent"
    /\ options.target = "unix"
    /\ lastTarget = "unix"
    /\ client = "https"
====
